---- MODULE Spec2Model ----
(***************************************************************************)
(* Model of mpv-downmix-gui: the debounced scale widget                    *)
(* (tk_scale_debounced.py) and the downmix state machine of main()         *)
(* (mpv_downmix_gui.py).                                                   *)
(*                                                                         *)
(* Numbers are Python floats (IEEE 754 binary64).  They are modelled       *)
(* bit-exactly: a float is sg * m * 2^e with a 53-bit mantissa m held as   *)
(* a little-endian sequence of base-2^15 limbs, and every arithmetic       *)
(* result is rounded to nearest, ties to even.  The sign of zero is not    *)
(* kept (-0.0 and 0.0 compare equal in Python).                            *)
(***************************************************************************)
EXTENDS Integers, Sequences, FiniteSets, TLC

(***************************************************************************)
(* Natural numbers of arbitrary size: little-endian limbs, no leading     *)
(* zero limb, << >> is zero.                                               *)
(***************************************************************************)
LimbBits == 15
Base == 32768
MantBits == 53

RECURSIVE BNorm(_)
BNorm(a) ==
    IF a = << >> THEN a
    ELSE IF a[Len(a)] = 0 THEN BNorm(SubSeq(a, 1, Len(a) - 1))
    ELSE a

BLimb(a, i) == IF i <= Len(a) THEN a[i] ELSE 0

BMax(m, n) == IF m >= n THEN m ELSE n

RECURSIVE BAddFrom(_, _, _, _)
BAddFrom(a, b, i, c) ==
    IF i > BMax(Len(a), Len(b))
    THEN (IF c = 0 THEN << >> ELSE << c >>)
    ELSE LET t == BLimb(a, i) + BLimb(b, i) + c
         IN  << t % Base >> \o BAddFrom(a, b, i + 1, t \div Base)

BAdd(a, b) == BAddFrom(a, b, 1, 0)

RECURSIVE BSubFrom(_, _, _, _)
BSubFrom(a, b, i, c) ==
    IF i > Len(a) THEN << >>
    ELSE LET t == a[i] - BLimb(b, i) - c
         IN  IF t < 0
             THEN << t + Base >> \o BSubFrom(a, b, i + 1, 1)
             ELSE << t >> \o BSubFrom(a, b, i + 1, 0)

\* a - b for a >= b
BSub(a, b) == BNorm(BSubFrom(a, b, 1, 0))

RECURSIVE BCmpFrom(_, _, _)
BCmpFrom(a, b, i) ==
    IF i = 0 THEN 0
    ELSE IF a[i] < b[i] THEN -1
    ELSE IF a[i] > b[i] THEN 1
    ELSE BCmpFrom(a, b, i - 1)

\* -1, 0, 1 as a < b, a = b, a > b
BCmp(a, b) ==
    IF Len(a) < Len(b) THEN -1
    ELSE IF Len(a) > Len(b) THEN 1
    ELSE BCmpFrom(a, b, Len(a))

RECURSIVE BMulSmallFrom(_, _, _, _)
BMulSmallFrom(a, k, i, c) ==
    IF i > Len(a)
    THEN (IF c = 0 THEN << >> ELSE << c >>)
    ELSE LET t == a[i] * k + c
         IN  << t % Base >> \o BMulSmallFrom(a, k, i + 1, t \div Base)

\* a * k for 0 <= k < Base
BMulSmall(a, k) == IF k = 0 THEN << >> ELSE BMulSmallFrom(a, k, 1, 0)

RECURSIVE BZeros(_)
BZeros(n) == IF n = 0 THEN << >> ELSE << 0 >> \o BZeros(n - 1)

BShlLimbs(a, n) == IF a = << >> THEN a ELSE BZeros(n) \o a

RECURSIVE BMulFrom(_, _, _)
BMulFrom(a, b, i) ==
    IF i > Len(a) THEN << >>
    ELSE BAdd(BShlLimbs(BMulSmall(b, a[i]), i - 1), BMulFrom(a, b, i + 1))

BMul(a, b) == BMulFrom(a, b, 1)

\* a * 2^n
BShl(a, n) == BShlLimbs(BMulSmall(a, 2 ^ (n % LimbBits)), n \div LimbBits)

RECURSIVE BDivSmallFrom(_, _, _, _)
BDivSmallFrom(a, d, i, r) ==
    IF i = 0 THEN << >>
    ELSE LET t == r * Base + a[i]
         IN  BDivSmallFrom(a, d, i - 1, t % d) \o << t \div d >>

\* floor(a / d) for 0 < d < Base
BDivSmall(a, d) == BNorm(BDivSmallFrom(a, d, Len(a), 0))

\* floor(a / 2^n)
BShr(a, n) ==
    IF n \div LimbBits >= Len(a) THEN << >>
    ELSE BDivSmall(SubSeq(a, n \div LimbBits + 1, Len(a)), 2 ^ (n % LimbBits))

RECURSIVE SmallBitLen(_)
SmallBitLen(k) == IF k = 0 THEN 0 ELSE 1 + SmallBitLen(k \div 2)

BBitLen(a) ==
    IF a = << >> THEN 0
    ELSE (Len(a) - 1) * LimbBits + SmallBitLen(a[Len(a)])

\* bit i (from 0) of a
BBit(a, i) == (BLimb(a, i \div LimbBits + 1) \div (2 ^ (i % LimbBits))) % 2

BIsOdd(a) == a # << >> /\ a[1] % 2 = 1

\* the largest d < Base with d * b <= r, found bit by bit from cur
RECURSIVE BDigit(_, _, _, _)
BDigit(r, b, bit, cur) ==
    IF bit < 0 THEN cur
    ELSE LET t == cur + 2 ^ bit
         IN  IF BCmp(BMulSmall(b, t), r) <= 0
             THEN BDigit(r, b, bit - 1, t)
             ELSE BDigit(r, b, bit - 1, cur)

\* long division, one limb of the dividend at a time: << quotient, remainder >>
RECURSIVE BDivModFrom(_, _, _, _, _)
BDivModFrom(a, b, i, q, r) ==
    IF i = 0 THEN << BNorm(q), r >>
    ELSE LET r2 == BNorm(<< a[i] >> \o r)
             d  == BDigit(r2, b, LimbBits - 1, 0)
         IN  BDivModFrom(a, b, i - 1, << d >> \o q, BSub(r2, BMulSmall(b, d)))

\* for b # 0
BDivMod(a, b) == BDivModFrom(a, b, Len(a), << >>, << >>)

(***************************************************************************)
(* Python floats.  [sg, m, e] stands for sg * m * 2^e; m has exactly       *)
(* MantBits bits unless the number is zero.  The exponent is not bounded:  *)
(* no value of the program comes near overflow or the subnormal range.     *)
(***************************************************************************)
FZero == [sg |-> 0, m |-> << >>, e |-> 0]

\* sg * (M + s) * 2^e rounded to nearest, ties to even, where 0 < s < 1 if
\* sticky and s = 0 otherwise (sticky is only given with more than MantBits bits)
FRoundCarry(sg, q2, e) ==
    IF BBitLen(q2) > MantBits
    THEN [sg |-> sg, m |-> BShr(q2, 1), e |-> e + 1]
    ELSE [sg |-> sg, m |-> q2, e |-> e]

\* q is the quotient of M by 2^k and c compares the remainder with a half
FRoundUp(sg, q, e, c, sticky) ==
    FRoundCarry(sg,
                IF c > 0 \/ (c = 0 /\ (sticky \/ BIsOdd(q))) THEN BAdd(q, << 1 >>) ELSE q,
                e)

FRoundCut(sg, M, e, sticky, k, q) ==
    FRoundUp(sg, q, e + k, BCmp(BSub(M, BShl(q, k)), BShl(<< 1 >>, k - 1)), sticky)

FRoundBits(sg, M, e, sticky, k) ==
    IF M = << >> THEN FZero
    ELSE IF k <= 0 THEN [sg |-> sg, m |-> BShl(M, -k), e |-> e + k]
    ELSE FRoundCut(sg, M, e, sticky, k, BShr(M, k))

FRound(sg, M, e, sticky) == FRoundBits(sg, M, e, sticky, BBitLen(M) - MantBits)

\* the limbs of an integer 0 <= n < 2^31
BFromInt(n) == BNorm(<< n % Base, (n \div Base) % Base, n \div (Base * Base) >>)

\* the float of an integer
FInt(n) == FRound(IF n < 0 THEN -1 ELSE 1, BFromInt(IF n < 0 THEN -n ELSE n), 0, FALSE)

\* the mantissa of every power of two, 2^(MantBits - 1)
PowMant == << 0, 0, 0, 128 >>

\* -x
FNeg(x) == [x EXCEPT !.sg = -x.sg]

\* beyond this exponent gap the smaller operand is below a quarter ulp of the
\* larger one and the sum rounds to the larger one
AddGap == 60

\* A is the mantissa of hi at the exponent of lo, c compares it with lo's
FAddSigned(hi, lo, A, c) ==
    FRound(IF hi.sg = lo.sg \/ c > 0 THEN hi.sg ELSE lo.sg,
           IF hi.sg = lo.sg THEN BAdd(A, lo.m)
           ELSE IF c > 0 THEN BSub(A, lo.m)
           ELSE IF c < 0 THEN BSub(lo.m, A)
           ELSE << >>,
           lo.e, FALSE)

FAddShifted(hi, lo, A) == FAddSigned(hi, lo, A, BCmp(A, lo.m))

FAddAligned(hi, lo) ==
    IF hi.e - lo.e > AddGap THEN hi
    ELSE FAddShifted(hi, lo, BShl(hi.m, hi.e - lo.e))

\* x + y
FAdd(x, y) ==
    IF x.sg = 0 THEN y
    ELSE IF y.sg = 0 THEN x
    ELSE IF x.e >= y.e THEN FAddAligned(x, y)
    ELSE FAddAligned(y, x)

\* x - y
FSub(x, y) == FAdd(x, FNeg(y))

\* x * y (a product with a power of two is exact: only the exponent moves)
FMul(x, y) ==
    IF x.sg = 0 \/ y.sg = 0 THEN FZero
    ELSE IF y.m = PowMant
    THEN [sg |-> x.sg * y.sg, m |-> x.m, e |-> x.e + y.e + MantBits - 1]
    ELSE IF x.m = PowMant
    THEN [sg |-> x.sg * y.sg, m |-> y.m, e |-> x.e + y.e + MantBits - 1]
    ELSE FRound(x.sg * y.sg, BMul(x.m, y.m), x.e + y.e, FALSE)

\* extra quotient bits computed by a division before rounding
DivBits == 55

\* x / y for y # 0 (Python raises ZeroDivisionError for y = 0: the callers
\* model that case); a quotient by a power of two is exact
FDivRound(x, y, qr) ==
    FRound(x.sg * y.sg, qr[1], x.e - DivBits - y.e, qr[2] # << >>)

FDiv(x, y) ==
    IF x.sg = 0 THEN FZero
    ELSE IF y.m = PowMant
    THEN [sg |-> x.sg * y.sg, m |-> x.m, e |-> x.e - y.e - (MantBits - 1)]
    ELSE FDivRound(x, y, BDivMod(BShl(x.m, DivBits), y.m))

\* -1, 0, 1 as x < y, x = y, x > y
FCmp(x, y) == FSub(x, y).sg

FAbs(x) == [x EXCEPT !.sg = IF x.sg = 0 THEN 0 ELSE 1]

(***************************************************************************)
(* Strings the program takes apart or compares by prefix (layout names,    *)
(* channel names, keys, the filter) are sequences of one-character         *)
(* strings: layout_name.s_5_1_side is "5.1(side)", role.FL is "FL".        *)
(* Python's None is the value None wherever a string may stand.            *)
(***************************************************************************)
None == << "None" >>

\* the names of the channels
role ==
    [FL |-> << "F", "L" >>,
     FR |-> << "F", "R" >>,
     FC |-> << "F", "C" >>,
     LFE |-> << "L", "F", "E" >>,
     BL |-> << "B", "L" >>,
     BR |-> << "B", "R" >>,
     SL |-> << "S", "L" >>,
     SR |-> << "S", "R" >>,
     BC |-> << "B", "C" >>]

\* the names of the layouts: s_5_1_side is "5.1(side)"
layout_name ==
    [s_empty |-> << "e", "m", "p", "t", "y" >>,
     s_mono |-> << "m", "o", "n", "o" >>,
     s_1_0 |-> << "1", ".", "0" >>,
     s_stereo |-> << "s", "t", "e", "r", "e", "o" >>,
     s_2_0 |-> << "2", ".", "0" >>,
     s_2_1 |-> << "2", ".", "1" >>,
     s_3_0 |-> << "3", ".", "0" >>,
     s_3_0_back |-> << "3", ".", "0", "(", "b", "a", "c", "k", ")" >>,
     s_3_1 |-> << "3", ".", "1" >>,
     s_3_1_back |-> << "3", ".", "1", "(", "b", "a", "c", "k", ")" >>,
     s_4_0 |-> << "4", ".", "0" >>,
     s_4_1 |-> << "4", ".", "1" >>,
     s_quad |-> << "q", "u", "a", "d" >>,
     s_4_1_alsa |-> << "4", ".", "1", "(", "a", "l", "s", "a", ")" >>,
     s_quad_side |-> << "q", "u", "a", "d", "(", "s", "i", "d", "e", ")" >>,
     s_5_0 |-> << "5", ".", "0" >>,
     s_5_0_alsa |-> << "5", ".", "0", "(", "a", "l", "s", "a", ")" >>,
     s_5_0_side |-> << "5", ".", "0", "(", "s", "i", "d", "e", ")" >>,
     s_5_1 |-> << "5", ".", "1" >>,
     s_5_1_alsa |-> << "5", ".", "1", "(", "a", "l", "s", "a", ")" >>,
     s_5_1_side |-> << "5", ".", "1", "(", "s", "i", "d", "e", ")" >>,
     s_6_0 |-> << "6", ".", "0" >>,
     s_hexagonal |-> << "h", "e", "x", "a", "g", "o", "n", "a", "l" >>,
     s_6_1 |-> << "6", ".", "1" >>,
     s_6_1_back |-> << "6", ".", "1", "(", "b", "a", "c", "k", ")" >>,
     s_7_0 |-> << "7", ".", "0" >>,
     s_7_1 |-> << "7", ".", "1" >>,
     s_7_1_alsa |-> << "7", ".", "1", "(", "a", "l", "s", "a", ")" >>,
     s_8_1 |-> << "8", ".", "1" >>,
     s_7_1_wide |-> << "7", ".", "1", "(", "w", "i", "d", "e", ")" >>]

s_unknown4 == << "u", "n", "k", "n", "o", "w", "n", "4" >>

\* the 3x3 grid of channel names of every layout name
input_channel_names_by_layout ==
    [n \in {layout_name.s_empty} |->
        << << None, None, None >>,
           << None, None, None >>,
           << None, None, None >> >>] @@
    [n \in {layout_name.s_mono, layout_name.s_1_0} |->
        << << None, role.FC, None >>,
           << None, None, None >>,
           << None, None, None >> >>] @@
    [n \in {layout_name.s_stereo, layout_name.s_2_0} |->
        << << role.FL, None, role.FR >>,
           << None, None, None >>,
           << None, None, None >> >>] @@
    [n \in {layout_name.s_2_1} |->
        << << role.FL, None, role.FR >>,
           << None, role.LFE, None >>,
           << None, None, None >> >>] @@
    [n \in {layout_name.s_3_0} |->
        << << role.FL, role.FC, role.FR >>,
           << None, None, None >>,
           << None, None, None >> >>] @@
    [n \in {layout_name.s_3_0_back} |->
        << << role.FL, None, role.FR >>,
           << None, None, None >>,
           << None, role.BC, None >> >>] @@
    [n \in {layout_name.s_3_1} |->
        << << role.FL, role.FC, role.FR >>,
           << None, role.LFE, None >>,
           << None, None, None >> >>] @@
    [n \in {layout_name.s_3_1_back} |->
        << << role.FL, None, role.FR >>,
           << None, role.LFE, None >>,
           << None, role.BC, None >> >>] @@
    [n \in {layout_name.s_4_0} |->
        << << role.FL, role.FC, role.FR >>,
           << None, None, None >>,
           << None, role.BC, None >> >>] @@
    [n \in {layout_name.s_4_1} |->
        << << role.FL, role.FC, role.FR >>,
           << None, role.LFE, None >>,
           << None, role.BC, None >> >>] @@
    [n \in {layout_name.s_quad} |->
        << << role.FL, None, role.FR >>,
           << None, None, None >>,
           << role.BL, None, role.BR >> >>] @@
    [n \in {layout_name.s_4_1_alsa} |->
        << << role.FL, None, role.FR >>,
           << None, role.LFE, None >>,
           << role.BL, None, role.BR >> >>] @@
    [n \in {layout_name.s_quad_side} |->
        << << role.FL, None, role.FR >>,
           << role.SL, None, role.SR >>,
           << None, None, None >> >>] @@
    [n \in {layout_name.s_5_0, layout_name.s_5_0_alsa} |->
        << << role.FL, role.FC, role.FR >>,
           << None, None, None >>,
           << role.BL, None, role.BR >> >>] @@
    [n \in {layout_name.s_5_0_side} |->
        << << role.FL, role.FC, role.FR >>,
           << role.SL, None, role.SR >>,
           << None, None, None >> >>] @@
    [n \in {layout_name.s_5_1, layout_name.s_5_1_alsa} |->
        << << role.FL, role.FC, role.FR >>,
           << None, role.LFE, None >>,
           << role.BL, None, role.BR >> >>] @@
    [n \in {layout_name.s_5_1_side} |->
        << << role.FL, role.FC, role.FR >>,
           << role.SL, role.LFE, role.SR >>,
           << None, None, None >> >>] @@
    [n \in {layout_name.s_6_0} |->
        << << role.FL, role.FC, role.FR >>,
           << role.SL, None, role.SR >>,
           << None, role.BC, None >> >>] @@
    [n \in {layout_name.s_hexagonal} |->
        << << role.FL, role.FC, role.FR >>,
           << None, None, None >>,
           << role.BL, role.BC, role.BR >> >>] @@
    [n \in {layout_name.s_6_1} |->
        << << role.FL, role.FC, role.FR >>,
           << role.SL, role.LFE, role.SR >>,
           << None, role.BC, None >> >>] @@
    [n \in {layout_name.s_6_1_back} |->
        << << role.FL, role.FC, role.FR >>,
           << None, role.LFE, None >>,
           << role.BL, role.BC, role.BR >> >>] @@
    [n \in {layout_name.s_7_0} |->
        << << role.FL, role.FC, role.FR >>,
           << role.SL, None, role.SR >>,
           << role.BL, None, role.BR >> >>] @@
    [n \in {layout_name.s_7_1, layout_name.s_7_1_alsa} |->
        << << role.FL, role.FC, role.FR >>,
           << role.SL, role.LFE, role.SR >>,
           << role.BL, None, role.BR >> >>] @@
    [n \in {layout_name.s_8_1} |->
        << << role.FL, role.FC, role.FR >>,
           << role.SL, role.LFE, role.SR >>,
           << role.BL, role.BC, role.BR >> >>]

\* the table with the grid of "5.1(alsa)" left at that of "5.0(alsa)"
N_alias_apart ==
    [input_channel_names_by_layout EXCEPT
        ![layout_name.s_5_1_alsa] = input_channel_names_by_layout[layout_name.s_5_0_alsa]]

N == input_channel_names_by_layout

\* the channel names of a grid with the cell of SR passed over
GridChannels_without_SR(grid) ==
    LET cells == IF grid = << >> THEN << >> ELSE grid[1] \o grid[2] \o grid[3]
    IN  SelectSeq(cells, LAMBDA c : c # None /\ c # role.SR)

\* the channel names of a grid in the order update_scale_dict visits them
\* (rows, then columns)
GridChannels(grid) ==
    LET cells == IF grid = << >> THEN << >> ELSE grid[1] \o grid[2] \o grid[3]
    IN  SelectSeq(cells, LAMBDA c : c # None)

SeqToSet(q) == {q[i] : i \in 1..Len(q)}

(***************************************************************************)
(* The two parameterizations of a channel's pair of weights                *)
(***************************************************************************)
F1 == FInt(1)
F2 == FInt(2)
F10 == FInt(10)

\* what Python raises on a division by zero, in place of a value
ZeroDivisionError == [raised |-> "ZeroDivisionError"]

\* channel volume: sum of left and right
get_channel_volume(coefficients, channel) ==
    LET L == coefficients.FL[channel]
        R == coefficients.FR[channel]
    IN  FAdd(R, L)

\* the balance with the difference taken the other way round
get_channel_balance_swapped(coefficients, channel) ==
    IF FAdd(coefficients.FR[channel], coefficients.FL[channel]).sg = 0
    THEN ZeroDivisionError
    ELSE FDiv(FSub(coefficients.FL[channel], coefficients.FR[channel]),
              FAdd(coefficients.FR[channel], coefficients.FL[channel]))

\* channel balance: difference R-L by sum R+L
get_channel_balance(coefficients, channel) ==
    LET L == coefficients.FL[channel]
        R == coefficients.FR[channel]
    IN  IF FAdd(R, L).sg = 0 THEN ZeroDivisionError
        ELSE FDiv(FSub(R, L), FAdd(R, L))

get_left_right_coefficient(volume, balance) ==
    << FDiv(FMul(FSub(F1, balance), volume), F2),
       FDiv(FMul(FAdd(F1, balance), volume), F2) >>

\* the scales hold ten times the value they stand for
get_lin_value(value) == FDiv(value, F10)

set_lin_value(value) == FMul(value, F10)

(***************************************************************************)
(* downmix_rfc7845 (not among the source files): the reference matrix of   *)
(* a layout and the rendering of a matrix, after sections 4.2 and 4.4 of   *)
(* the specification.  The gains are those of RFC 7845, figures 3 to 8,    *)
(* in millionths; a layout the standard gives no matrix for gets the       *)
(* gains of its roles before normalisation.                                *)
(***************************************************************************)
\* the float a decimal literal with six decimals denotes
FDec6(n) == FDiv(FInt(n), FInt(1000000))

\* the gains of a layout in millionths:
\* << front, centre, near side, far side, back centre, lfe >>
GainMillionths(layout) ==
    CASE layout \in {layout_name.s_stereo, layout_name.s_2_0} -> << 1000000, 0, 0, 0, 0, 0 >>
      [] layout = layout_name.s_3_0 -> << 585786, 414214, 0, 0, 0, 0 >>
      [] layout = layout_name.s_quad -> << 422650, 0, 366025, 211325, 0, 0 >>
      [] layout \in {layout_name.s_5_0, layout_name.s_5_0_alsa} -> << 650802, 460186, 563611, 325401, 0, 0 >>
      [] layout \in {layout_name.s_5_1, layout_name.s_5_1_alsa} -> << 529067, 374107, 458186, 264534, 0, 374107 >>
      [] layout = layout_name.s_6_1 -> << 455310, 321953, 394310, 227655, 278819, 321953 >>
      [] layout \in {layout_name.s_7_1, layout_name.s_7_1_alsa} -> << 388631, 274804, 336565, 194316, 0, 274804 >>
      [] OTHER -> << 1000000, 707107, 866025, 500000, 612372, 707107 >>

ReferenceGains(layout) == [i \in 1..6 |-> FDec6(GainMillionths(layout)[i])]

\* << leftWeight, rightWeight >> of a channel under the gains g
ChannelWeights(g, channel) ==
    CASE channel = role.FL -> << g[1], FZero >>
      [] channel = role.FR -> << FZero, g[1] >>
      [] channel = role.FC -> << g[2], g[2] >>
      [] channel = role.LFE -> << g[6], g[6] >>
      [] channel = role.BC -> << g[5], g[5] >>
      [] channel \in {role.SL, role.BL} -> << g[3], g[4] >>
      [] channel \in {role.SR, role.BR} -> << g[4], g[3] >>

ReferenceWeights(layout, channel) == ChannelWeights(ReferenceGains(layout), channel)

\* get_coefficients raises for a name that is no layout (None included)
KnownLayout(layout) == layout \in DOMAIN N

\* a matrix: the two dicts coefficients["FL"] and coefficients["FR"], and
\* keys, the order in which a loop over either dict visits the channels
MatrixOf(g, keys) ==
    [FL |-> [ch \in SeqToSet(keys) |-> ChannelWeights(g, ch)[1]],
     FR |-> [ch \in SeqToSet(keys) |-> ChannelWeights(g, ch)[2]],
     keys |-> keys]

get_coefficients(layout) == MatrixOf(ReferenceGains(layout), GridChannels(N[layout]))

\* "%.3f" % w: w * 1000 rounded to an integer, ties to even, in decimal
RoundThousandths(w) ==
    LET M    == BMulSmall(w.m, 1000)
        k    == -w.e
        q    == BShr(M, k)
        c    == BCmp(BSub(M, BShl(q, k)), BShl(<< 1 >>, k - 1))
        up   == c > 0 \/ (c = 0 /\ BIsOdd(q))
        q2   == IF up THEN BAdd(q, << 1 >>) ELSE q
    IN  IF w.sg = 0 THEN 0
        ELSE IF k <= 0 THEN BLimb(BShl(M, -k), 1) + Base * BLimb(BShl(M, -k), 2)
        ELSE BLimb(q2, 1) + Base * BLimb(q2, 2)

DigitChar(d) == << "0", "1", "2", "3", "4", "5", "6", "7", "8", "9" >>[d + 1]

RECURSIVE NatChars(_)
NatChars(n) == IF n < 10 THEN << DigitChar(n) >> ELSE NatChars(n \div 10) \o << DigitChar(n % 10) >>

Format3(w) ==
    LET t == RoundThousandths(w)
    IN  (IF w.sg < 0 THEN << "-" >> ELSE << >>)
        \o NatChars(t \div 1000) \o << "." >>
        \o << DigitChar((t \div 100) % 10), DigitChar((t \div 10) % 10), DigitChar(t % 10) >>

\* role*weight terms of one output channel joined by "+", zero weights left out
RECURSIVE FilterTerms(_, _, _)
FilterTerms(weights, keys, i) ==
    IF i > Len(keys) THEN << >>
    ELSE LET rest == FilterTerms(weights, keys, i + 1)
             term == keys[i] \o << "*" >> \o Format3(weights[keys[i]])
         IN  IF weights[keys[i]].sg = 0 THEN rest
             ELSE IF rest = << >> THEN term
             ELSE term \o << "+" >> \o rest

s_pan_stereo_FL == << "p", "a", "n", "=", "s", "t", "e", "r", "e", "o", "|", "F", "L", "=" >>
s_FR == << "|", "F", "R", "=" >>

get_ffmpeg_audio_filter(coefficients) ==
    s_pan_stereo_FL \o FilterTerms(coefficients.FL, coefficients.keys, 1)
    \o s_FR \o FilterTerms(coefficients.FR, coefficients.keys, 1)

(***************************************************************************)
(* The values a run can meet, and the results of the arithmetic on them,   *)
(* computed once.  Every use falls back on the definition itself for a     *)
(* value outside the tables, so the tables change no result.               *)
(***************************************************************************)
\* the layouts of the audio tracks played in the runs checked
SmallMedia == {layout_name.s_mono, layout_name.s_stereo}
WideMedia == {layout_name.s_quad, layout_name.s_6_1}
QuietMedia == {layout_name.s_mono}

\* the positions a user moves a scale to (the scale's own value, ten times
\* the volume or balance): volume 0.5 and 0.725, balance -0.2 and 0.325
UserVolumeRaw == {FInt(5), FDiv(FInt(29), FInt(4))}
UserBalanceRaw == {FInt(-2), FDiv(FInt(13), FInt(4))}

\* the one position of each kind used with the wide layouts
WideVolumeRaw == {FDiv(FInt(29), FInt(4))}
WideBalanceRaw == {FDiv(FInt(13), FInt(4))}

PairMatrix(p) == [FL |-> [ch \in {role.FC} |-> p[1]], FR |-> [ch \in {role.FC} |-> p[2]], keys |-> << role.FC >>]

Range(f) == {f[i] : i \in DOMAIN f}

TablesLeftRight(cm, vm, bm, sm, gvol, gbal) ==
    [coefficients |-> cm, volume |-> vm, balance |-> bm, set |-> sm,
     get |-> gvol @@ gbal,
     left_right |-> [p \in Range(gvol) \X Range(gbal) |->
                        get_left_right_coefficient(p[1], p[2])]]

TablesGet(cm, vm, bm, svol, sbal, vraws, braws) ==
    TablesLeftRight(cm, vm, bm, svol @@ sbal,
                    [r \in vraws \cup Range(svol) |-> get_lin_value(r)],
                    [r \in braws \cup Range(sbal) |-> get_lin_value(r)])

TablesSet(cm, vm, bm, uvol, ubal, vraws, braws) ==
    TablesGet(cm, vm, bm,
              [v \in Range(vm) \cup uvol |-> set_lin_value(v)],
              [v \in (Range(bm) \ {ZeroDivisionError}) \cup ubal
                     \cup {FNeg(u) : u \in ubal} |-> set_lin_value(v)],
              vraws, braws)

TablesViews(cm, pairs, vraws, braws) ==
    TablesSet(cm,
              [p \in pairs |-> get_channel_volume(PairMatrix(p), role.FC)],
              [p \in pairs |-> get_channel_balance(PairMatrix(p), role.FC)],
              {get_lin_value(r) : r \in vraws},
              {get_lin_value(r) : r \in braws},
              vraws, braws)

\* the tables for the layouts of cm and the scale positions vraws and braws
TablesPairs(cm, vraws, braws) ==
    TablesViews(cm, UNION {{<< cm[l].FL[ch], cm[l].FR[ch] >> : ch \in DOMAIN cm[l].FL} :
                               l \in DOMAIN cm},
                vraws, braws)

Tables ==
    TablesPairs([l \in SmallMedia |-> get_coefficients(l)], UserVolumeRaw, UserBalanceRaw)

TablesWide ==
    TablesPairs([l \in WideMedia |-> get_coefficients(l)], WideVolumeRaw, WideBalanceRaw)

(***************************************************************************)
(* The state of the program                                                *)
(***************************************************************************)
VARIABLES
    pc,                    \* "constructed", "mainloop" or "exited"
    input_channel_layout,  \* the name of the active layout, or None
    input_channel_names,   \* the grid of the active layout, or << >>
    downmix_coefficients,  \* the matrix, or NoCoefficients
    scale_dict,            \* key -> the scale last built for the key
    replaced_scales,       \* scales no longer in scale_dict, timer pending
    lock_sides,            \* the "lock sides" option
    audio_filter,          \* the filter last rendered
    mpv_af,                \* the filter last handed to the player, or None
    media,                 \* the layouts of the tracks of the file played
    budget,                \* events left in the run
    fired,                 \* the timers the main loop has run
    hist,                  \* the event handled last and what it did
    tables,                \* the tables of the run, which no step changes
    probe                  \* a pair of numbers and their two views, or NoValue

vars ==
    << pc, input_channel_layout, input_channel_names, downmix_coefficients,
       scale_dict, replaced_scales, lock_sides, audio_filter, mpv_af, media,
       budget, fired, hist, tables, probe >>

\* the arithmetic, looked up in the tables where they hold the argument
Coefficients(layout) ==
    IF layout \in DOMAIN tables.coefficients THEN tables.coefficients[layout]
    ELSE get_coefficients(layout)

WeightPair(coefficients, channel) ==
    << coefficients.FL[channel], coefficients.FR[channel] >>

Volume(coefficients, channel) ==
    IF WeightPair(coefficients, channel) \in DOMAIN tables.volume
    THEN tables.volume[WeightPair(coefficients, channel)]
    ELSE get_channel_volume(coefficients, channel)

Balance(coefficients, channel) ==
    IF WeightPair(coefficients, channel) \in DOMAIN tables.balance
    THEN tables.balance[WeightPair(coefficients, channel)]
    ELSE get_channel_balance(coefficients, channel)

SetLin(value) ==
    IF value \in DOMAIN tables.set THEN tables.set[value] ELSE set_lin_value(value)

GetLin(value) ==
    IF value \in DOMAIN tables.get THEN tables.get[value] ELSE get_lin_value(value)

LeftRight(volume, balance) ==
    IF << volume, balance >> \in DOMAIN tables.left_right
    THEN tables.left_right[<< volume, balance >>]
    ELSE get_left_right_coefficient(volume, balance)

\* downmix_coefficients = None
NoCoefficients == [none |-> TRUE]

\* no value: the arguments of after_change() called without any
NoValue == [none |-> TRUE, value |-> TRUE]

NoError == "none"

s_volume == << "v", "o", "l", "u", "m", "e" >>
s_balance == << "b", "a", "l", "a", "n", "c", "e" >>
s_unknown == << "u", "n", "k", "n", "o", "w", "n" >>

\* f"{frame_id}.{channel_name}"
KeyOf(frame_id, channel_name) == frame_id \o << "." >> \o channel_name

StartsWith(str, prefix) ==
    Len(str) >= Len(prefix) /\ SubSeq(str, 1, Len(prefix)) = prefix

\* the state the handlers work on: the variables they read and write, the
\* number of af_cmd("set", af) calls (pushes), the << key, value >>
\* arguments of the after_change calls (commits) and the keys of the scales
\* written with set() (writes) by the handler running,
\* and the exception that ended it, if any.  A handler given a state with
\* an exception raised does nothing: the exception skips what follows.
Now ==
    [layout |-> input_channel_layout, names |-> input_channel_names,
     coefficients |-> downmix_coefficients, scales |-> scale_dict,
     replaced |-> replaced_scales, lock |-> lock_sides,
     filter |-> audio_filter, af |-> mpv_af, exited |-> FALSE,
     pushes |-> 0, commits |-> << >>, writes |-> << >>, raised |-> NoError]

Raise(st, exception) == [st EXCEPT !.raised = exception]

(***************************************************************************)
(* tk_scale_debounced: a scale is its variable (value), _last_value,       *)
(* _change_key_timer (the id of the timer started last, 0 for None) and    *)
(* the ids of its timers that are pending                                  *)
(***************************************************************************)
tk_scale_debounced(init_value) ==
    [value |-> SetLin(init_value), last_value |-> init_value,
     change_key_timer |-> 0, pending |-> {}]

get(scale) == GetLin(scale.value)

set(scale, value) == [scale EXCEPT !.value = SetLin(value)]

(***************************************************************************)
(* The handlers of mpv_downmix_gui                                         *)
(***************************************************************************)
\* c["FL"][channel], c["FR"][channel] = get_left_right_coefficient(...)
set_left_right(st, channel, lr) ==
    [st EXCEPT !.coefficients.FL[channel] = lr[1],
               !.coefficients.FR[channel] = lr[2]]

\* the loop body with the pair assigned the wrong way round
after_change_channel_crossed(st, channel) ==
    IF KeyOf(s_volume, channel) \notin DOMAIN st.scales
       \/ KeyOf(s_balance, channel) \notin DOMAIN st.scales
    THEN Raise(st, "KeyError")
    ELSE set_left_right(st, channel,
                        LeftRight(get(st.scales[KeyOf(s_balance, channel)]),
                                  get(st.scales[KeyOf(s_volume, channel)])))

after_change_channel(st, channel) ==
    IF KeyOf(s_volume, channel) \notin DOMAIN st.scales
       \/ KeyOf(s_balance, channel) \notin DOMAIN st.scales
    THEN Raise(st, "KeyError")
    ELSE set_left_right(st, channel,
                        LeftRight(get(st.scales[KeyOf(s_volume, channel)]),
                                  get(st.scales[KeyOf(s_balance, channel)])))

RECURSIVE after_change_loop(_, _)
after_change_loop(st, i) ==
    IF st.raised # NoError \/ i > Len(st.coefficients.keys) THEN st
    ELSE after_change_loop(after_change_channel(st, st.coefficients.keys[i]), i + 1)

s_pan_quote == << "p", "a", "n", "=", "\"" >>

\* the push with the filter cut one character late
af_cmd_set_cut_late(st, f) ==
    IF ~StartsWith(f, s_pan_stereo_FL)
    THEN [st EXCEPT !.filter = f, !.raised = "AssertionError"]
    ELSE [st EXCEPT !.filter = f,
                    !.af = s_pan_quote \o SubSeq(f, 6, Len(f)) \o << "\"" >>,
                    !.pushes = @ + 1]

\* mpv_ipc_client.af_cmd("set", 'pan="' + audio_filter[4:] + '"')
af_cmd_set(st, f) ==
    IF ~StartsWith(f, s_pan_stereo_FL)
    THEN [st EXCEPT !.filter = f, !.raised = "AssertionError"]
    ELSE [st EXCEPT !.filter = f,
                    !.af = s_pan_quote \o SubSeq(f, 5, Len(f)) \o << "\"" >>,
                    !.pushes = @ + 1]

after_change_filter(st) ==
    IF st.raised # NoError THEN st
    ELSE af_cmd_set(st, get_ffmpeg_audio_filter(st.coefficients))

after_change(st, key, value) ==
    IF st.raised # NoError THEN st
    ELSE IF st.coefficients = NoCoefficients
    THEN [st EXCEPT !.commits = Append(@, << key, value >>), !.raised = "TypeError"]
    ELSE after_change_filter(
             after_change_loop([st EXCEPT !.commits = Append(@, << key, value >>)], 1))

reset_balance(st, channel, balance) ==
    IF st.raised # NoError THEN st
    ELSE IF KeyOf(s_balance, channel) \notin DOMAIN st.scales THEN Raise(st, "KeyError")
    ELSE [st EXCEPT !.scales[KeyOf(s_balance, channel)] = set(@, balance),
                    !.writes = Append(@, KeyOf(s_balance, channel))]

reset_volume(st, channel, volume, balance) ==
    IF balance = ZeroDivisionError THEN Raise(st, "ZeroDivisionError")
    ELSE IF KeyOf(s_volume, channel) \notin DOMAIN st.scales THEN Raise(st, "KeyError")
    ELSE [st EXCEPT !.scales[KeyOf(s_volume, channel)] = set(@, volume),
                    !.writes = Append(@, KeyOf(s_volume, channel))]

\* a reset that leaves the scales where they are
reset_channel_skipped(st, channel) == st

reset_channel(st, channel) ==
    reset_balance(reset_volume(st, channel, Volume(st.coefficients, channel),
                               Balance(st.coefficients, channel)),
                  channel, Balance(st.coefficients, channel))

RECURSIVE reset_loop(_, _)
reset_loop(st, i) ==
    IF st.raised # NoError \/ i > Len(st.coefficients.keys) THEN st
    ELSE reset_loop(reset_channel(st, st.coefficients.keys[i]), i + 1)

reset_downmix_to_rfc7845(st) ==
    IF st.raised # NoError THEN st
    ELSE IF ~KnownLayout(st.layout) THEN Raise(st, "KeyError")
    ELSE after_change(
             reset_loop([st EXCEPT !.coefficients = Coefficients(st.layout)], 1),
             None, NoValue)

\* scale_dict[key] = tk_scale_debounced(..., init_value=init_value, ...)
grid_scale(st, key, init_value) ==
    IF init_value = ZeroDivisionError THEN Raise(st, "ZeroDivisionError")
    ELSE [st EXCEPT
            !.scales = (key :> tk_scale_debounced(init_value)) @@ @,
            !.replaced = IF key \in DOMAIN st.scales /\ st.scales[key].pending # {}
                         THEN Append(@, [key |-> key, scale |-> st.scales[key]])
                         ELSE @]

RECURSIVE update_scale_dict_of_frame_id(_, _, _)
update_scale_dict_of_frame_id(st, frame_id, i) ==
    IF st.raised # NoError \/ i > Len(GridChannels(st.names)) THEN st
    ELSE update_scale_dict_of_frame_id(
             grid_scale(st, KeyOf(frame_id, GridChannels(st.names)[i]),
                        IF frame_id = s_volume
                        THEN Volume(st.coefficients, GridChannels(st.names)[i])
                        ELSE Balance(st.coefficients, GridChannels(st.names)[i])),
             frame_id, i + 1)

\* the scales of the volume frame alone
update_scale_dict_volume_only(st) ==
    update_scale_dict_of_frame_id(st, s_volume, 1)

update_scale_dict(st) ==
    update_scale_dict_of_frame_id(update_scale_dict_of_frame_id(st, s_volume, 1),
                                  s_balance, 1)

set_input_channel_layout(st, channel_layout) ==
    IF st.raised # NoError THEN st
    ELSE IF channel_layout = None \/ channel_layout = << >> THEN st
    ELSE IF channel_layout \notin DOMAIN input_channel_names_by_layout
    THEN [st EXCEPT !.layout = channel_layout, !.raised = "KeyError"]
    ELSE update_scale_dict(
             [st EXCEPT !.layout = channel_layout,
                        !.names = input_channel_names_by_layout[channel_layout],
                        !.coefficients = Coefficients(channel_layout)])

\* the observer with the teardown after the return reached
change_audio_track_quits(st, track) ==
    IF ~track.present THEN st
    ELSE IF StartsWith(track.demux_channels, s_unknown) THEN [st EXCEPT !.exited = TRUE]
    ELSE reset_downmix_to_rfc7845(set_input_channel_layout(st, st.layout))

\* track: [present |-> FALSE] for None, else the track's "demux-channels"
change_audio_track(st, track) ==
    IF ~track.present THEN st
    ELSE IF StartsWith(track.demux_channels, s_unknown) THEN st
    ELSE reset_downmix_to_rfc7845(set_input_channel_layout(st, st.layout))

\* the sibling of key: the same view and role on the other side
OtherKey(key) ==
    SubSeq(key, 1, Len(key) - 1) \o << IF key[Len(key)] = "R" THEN "L" ELSE "R" >>

\* mirroring without the negation of a balance
on_change_same_value(st, key, value) ==
    IF ~st.lock THEN st
    ELSE IF key[Len(key)] \notin {"L", "R"} THEN st
    ELSE IF OtherKey(key) \notin DOMAIN st.scales THEN Raise(st, "KeyError")
    ELSE [st EXCEPT !.scales[OtherKey(key)] = set(@, value),
                    !.writes = Append(@, OtherKey(key))]

\* mirroring whatever the role and whatever the option
on_change_any_role(st, key, value) ==
    IF OtherKey(key) \notin DOMAIN st.scales THEN Raise(st, "KeyError")
    ELSE [st EXCEPT !.scales[OtherKey(key)] =
                        set(@, IF StartsWith(key, s_balance \o << "." >>)
                               THEN FMul(FInt(-1), value) ELSE value),
                    !.writes = Append(@, OtherKey(key))]

\* mirroring of the volume scales alone
on_change_volume_only(st, key, value) ==
    IF ~st.lock THEN st
    ELSE IF key[Len(key)] \notin {"L", "R"} THEN st
    ELSE IF StartsWith(key, s_balance \o << "." >>) THEN st
    ELSE IF OtherKey(key) \notin DOMAIN st.scales THEN Raise(st, "KeyError")
    ELSE [st EXCEPT !.scales[OtherKey(key)] = set(@, value),
                    !.writes = Append(@, OtherKey(key))]

\* mirroring that runs the live change of the sibling in turn, which
\* writes the scale the change came from
on_change_echo(st, key, value) ==
    IF ~st.lock THEN st
    ELSE IF key[Len(key)] \notin {"L", "R"} THEN st
    ELSE IF OtherKey(key) \notin DOMAIN st.scales THEN Raise(st, "KeyError")
    ELSE [st EXCEPT !.scales[OtherKey(key)] =
                        set(@, IF StartsWith(key, s_balance \o << "." >>)
                               THEN FMul(FInt(-1), value) ELSE value),
                    !.scales[key] = set(@, value),
                    !.writes = @ \o << OtherKey(key), key >>]

on_change(st, key, value) ==
    IF ~st.lock THEN st
    ELSE IF key[Len(key)] \notin {"L", "R"} THEN st
    ELSE IF OtherKey(key) \notin DOMAIN st.scales THEN Raise(st, "KeyError")
    ELSE [st EXCEPT !.scales[OtherKey(key)] =
                        set(@, IF StartsWith(key, s_balance \o << "." >>)
                               THEN FMul(FInt(-1), value) ELSE value),
                    !.writes = Append(@, OtherKey(key))]

(***************************************************************************)
(* The event handlers of tk_scale_debounced.  at says which widget the     *)
(* event is for: the one scale_dict holds for a key, or a replaced one.    *)
(***************************************************************************)
InDict(key) == [dict |-> TRUE, key |-> key, index |-> 0]

Replaced(i) == [dict |-> FALSE, key |-> replaced_scales[i].key, index |-> i]

Widget(st, at) ==
    IF at.dict THEN st.scales[at.key] ELSE st.replaced[at.index].scale

Store(st, at, scale) ==
    IF at.dict THEN [st EXCEPT !.scales[at.key] = scale]
    ELSE [st EXCEPT !.replaced[at.index].scale = scale]

\* a live change that commits as well
_scale_change_live_commits(st, at) ==
    after_change(on_change(st, at.key, get(Widget(st, at))), at.key, get(Widget(st, at)))

_scale_change_live(st, at) ==
    on_change(st, at.key, get(Widget(st, at)))

\* self._last_value = value, unless after_change raised
set_last_value(st, at, value) ==
    IF st.raised # NoError THEN st
    ELSE Store(st, at, [Widget(st, at) EXCEPT !.last_value = value])

\* a commit without the comparison with the last value
scale_change_done_always(st, at, value) ==
    set_last_value(after_change(st, at.key, value), at, value)

scale_change_done_value(st, at, value) ==
    IF value # Widget(st, at).last_value
    THEN set_last_value(after_change(st, at.key, value), at, value)
    ELSE st

_scale_change_done(st, at) ==
    scale_change_done_value(st, at, get(Widget(st, at)))

\* a timer that is never cancelled
after_cancel_nothing(scale) == scale

after_cancel(scale) ==
    IF scale.change_key_timer # 0
    THEN [scale EXCEPT !.pending = @ \ {scale.change_key_timer}]
    ELSE scale

\* self._change_key_timer = self.after(t, self._scale_change_done)
after(scale) ==
    [scale EXCEPT !.change_key_timer = @ + 1, !.pending = @ \cup {scale.change_key_timer + 1}]

_scale_change_key(st, at) ==
    Store(st, at, after(after_cancel(Widget(st, at))))

(***************************************************************************)
(* The run: the events and what they are drawn from                        *)
(***************************************************************************)
\* the events of a run
MaxEvents == 3
MaxEventsWide == 2
MaxEventsQuiet == 5

\* a layout name mpv knows and the table does not
StrayLayouts == {layout_name.s_7_1_wide}

NoTrack == [present |-> FALSE]

Track(channel_layout) == [present |-> TRUE, demux_channels |-> channel_layout]

\* mpv_ipc_client.audio_params at startup: empty, or the layout of a track
AudioParams ==
    {[present |-> FALSE]}
    \cup {[present |-> TRUE, channels |-> l] : l \in media \cup StrayLayouts}

\* what a "current-tracks/audio" notification carries
Notifications == {NoTrack, Track(s_unknown4)} \cup {Track(l) : l \in media}

\* where the user can put the scale of a key: two positions in the runs
\* with mono and stereo, one in the others
UserRaws(key) ==
    IF StartsWith(key, s_volume)
    THEN (IF media = SmallMedia THEN UserVolumeRaw ELSE WideVolumeRaw)
    ELSE (IF media = SmallMedia THEN UserBalanceRaw ELSE WideBalanceRaw)

Apply(st, next_pc, op, key, arg) ==
    /\ pc' = IF st.exited THEN "exited" ELSE next_pc
    /\ input_channel_layout' = st.layout
    /\ input_channel_names' = st.names
    /\ downmix_coefficients' = st.coefficients
    /\ scale_dict' = st.scales
    /\ replaced_scales' = SelectSeq(st.replaced, LAMBDA w : w.scale.pending # {})
    /\ lock_sides' = st.lock
    /\ audio_filter' = st.filter
    /\ mpv_af' = st.af
    /\ media' = media
    /\ tables' = tables
    /\ probe' = probe
    /\ fired' = IF op \in {"TimerExpires", "ReplacedTimerExpires"}
                THEN fired + 1 ELSE fired
    /\ hist' = [op |-> op, key |-> key, arg |-> arg, pushes |-> st.pushes,
                commits |-> st.commits, writes |-> st.writes, raised |-> st.raised,
                editing |-> CASE op = "LiveChange" -> hist.editing \cup {key}
                              [] op \in {"ButtonRelease", "KeyRelease"} ->
                                     hist.editing \ {key}
                              [] OTHER -> hist.editing]

InitProgram ==
    /\ pc = "constructed"
    /\ input_channel_layout = None
    /\ input_channel_names = << >>
    /\ downmix_coefficients = NoCoefficients
    /\ scale_dict = << >>
    /\ replaced_scales = << >>
    /\ lock_sides = TRUE
    /\ audio_filter = << >>
    /\ mpv_af = None
    /\ fired = 0
    /\ hist = [op |-> "main", key |-> None, arg |-> NoValue, pushes |-> 0,
               commits |-> << >>, writes |-> << >>, raised |-> NoError,
               editing |-> {}]

Init ==
    /\ InitProgram
    /\ tables = Tables
    /\ probe = NoValue
    /\ media = SmallMedia
    /\ budget = MaxEvents

InitWide ==
    /\ InitProgram
    /\ tables = TablesWide
    /\ probe = NoValue
    /\ media = WideMedia
    /\ budget = MaxEventsWide

\* the longer runs, with the one layout mono
InitQuiet ==
    /\ InitProgram
    /\ tables = Tables
    /\ probe = NoValue
    /\ media = QuietMedia
    /\ budget = MaxEventsQuiet

\* the end of main: the layout mpv reports, if any, then the main loop; an
\* exception here ends the process
StartDone(st, audio_params) ==
    Apply(st, IF st.raised # NoError THEN "exited" ELSE "mainloop",
          "Start", None, audio_params)

Start(audio_params) ==
    /\ pc = "constructed"
    /\ IF audio_params.present
       THEN StartDone(reset_downmix_to_rfc7845(
                          set_input_channel_layout(Now, audio_params.channels)),
                      audio_params)
       ELSE StartDone(Now, audio_params)
    /\ budget' = budget

\* the observer of "current-tracks/audio"
TrackNotification(track) ==
    /\ pc = "mainloop"
    /\ budget > 0
    /\ Apply(change_audio_track(Now, track), pc, "TrackNotification", None, track)
    /\ budget' = budget - 1

\* the user moves the scale of key to raw: the scale writes its variable and
\* calls its command
LiveChange(key, raw) ==
    /\ pc = "mainloop"
    /\ budget > 0
    /\ key \in DOMAIN scale_dict
    /\ Apply(_scale_change_live([Now EXCEPT !.scales[key].value = raw], InDict(key)),
             pc, "LiveChange", key, raw)
    /\ budget' = budget - 1

ButtonRelease(key) ==
    /\ pc = "mainloop"
    /\ budget > 0
    /\ key \in DOMAIN scale_dict
    /\ Apply(_scale_change_done(Now, InDict(key)), pc, "ButtonRelease", key, NoValue)
    /\ budget' = budget - 1

KeyRelease(key) ==
    /\ pc = "mainloop"
    /\ budget > 0
    /\ key \in DOMAIN scale_dict
    /\ Apply(_scale_change_key(Now, InDict(key)), pc, "KeyRelease", key, NoValue)
    /\ budget' = budget - 1

\* a pending timer of a scale, in scale_dict or replaced, expires
TimerExpires(at, id) ==
    /\ pc = "mainloop"
    /\ id \in Widget(Now, at).pending
    /\ Apply(_scale_change_done(
                 Store(Now, at, [Widget(Now, at) EXCEPT !.pending = @ \ {id}]), at),
             pc, IF at.dict THEN "TimerExpires" ELSE "ReplacedTimerExpires",
             at.key, NoValue)
    /\ budget' = budget

ToggleLockSides ==
    /\ pc = "mainloop"
    /\ budget > 0
    /\ Apply([Now EXCEPT !.lock = ~@], pc, "ToggleLockSides", None, NoValue)
    /\ budget' = budget - 1

ResetButton ==
    /\ pc = "mainloop"
    /\ budget > 0
    /\ Apply(reset_downmix_to_rfc7845(Now), pc, "ResetButton", None, NoValue)
    /\ budget' = budget - 1

Next ==
    \/ \E audio_params \in AudioParams : Start(audio_params)
    \/ \E track \in Notifications : TrackNotification(track)
    \/ \E key \in DOMAIN scale_dict : \E raw \in UserRaws(key) : LiveChange(key, raw)
    \/ \E key \in DOMAIN scale_dict : ButtonRelease(key)
    \/ \E key \in DOMAIN scale_dict : KeyRelease(key)
    \/ \E key \in DOMAIN scale_dict : \E id \in scale_dict[key].pending :
           TimerExpires(InDict(key), id)
    \/ \E i \in DOMAIN replaced_scales : \E id \in replaced_scales[i].scale.pending :
           TimerExpires(Replaced(i), id)
    \/ ToggleLockSides
    \/ ResetButton

Spec == Init /\ [][Next]_vars

SpecWide == InitWide /\ [][Next]_vars

SpecQuiet == InitQuiet /\ [][Next]_vars

\* some timer started with after() has not fired yet
TimerPending ==
    \/ \E key \in DOMAIN scale_dict : scale_dict[key].pending # {}
    \/ \E i \in DOMAIN replaced_scales : replaced_scales[i].scale.pending # {}

\* the main loop runs a timer that is pending: the steps of TimerExpires,
\* and they alone, count in fired
TimerFires ==
    /\ pc = "mainloop"
    /\ TimerPending
    /\ fired' = fired + 1

SpecQuietFair == SpecQuiet /\ WF_fired(TimerFires)

(***************************************************************************)
(* The two parameterizations on their own: a volume and a balance taken    *)
(* to a pair of weights and back, and a pair of weights taken to volume    *)
(* and balance and back, and laid under the controls                       *)
(***************************************************************************)
\* tenths: volumes of the scale's range, balances of its range
ProbeVolumes == {FDiv(FInt(n), F10) : n \in {1, 5, 7, 10, 25, 40}}
ProbeBalances == {FDiv(FInt(n), F10) : n \in {-10, -9, -6, -2, 0, 3, 10}}
ProbeWeights == {FDiv(FInt(n), F10) : n \in {-5, 0, 1, 3, 5, 10, 20}}

ProbeInputs ==
    {[kind |-> "controls", volume |-> v, balance |-> b, done |-> FALSE] :
        v \in ProbeVolumes, b \in ProbeBalances}
    \cup {[kind |-> "weights", L |-> l, R |-> r, done |-> FALSE] :
        l \in ProbeWeights, r \in ProbeWeights}

InitViews ==
    /\ InitProgram
    /\ tables = Tables
    /\ media = SmallMedia
    /\ budget = 0
    /\ probe \in ProbeInputs

\* the grid and the scales of "mono", its one channel FC given the weights p
MonoOver(p) ==
    [update_scale_dict([Now EXCEPT !.layout = layout_name.s_mono, !.names = N[layout_name.s_mono],
                                   !.coefficients = get_coefficients(layout_name.s_mono)])
       EXCEPT !.coefficients = PairMatrix(p)]

WeightsOfControls(in, lr) ==
    [kind |-> "controls", volume |-> in.volume, balance |-> in.balance, done |-> TRUE,
     lr |-> lr,
     volume_back |-> get_channel_volume(PairMatrix(lr), role.FC),
     balance_back |-> get_channel_balance(PairMatrix(lr), role.FC)]

ControlsOfWeights(in, volume, balance) ==
    [kind |-> "weights", L |-> in.L, R |-> in.R, done |-> TRUE,
     volume_view |-> volume, balance_view |-> balance,
     lr_back |-> IF balance = ZeroDivisionError THEN NoValue
                 ELSE get_left_right_coefficient(volume, balance),
     built |-> update_scale_dict(MonoOver(<< in.L, in.R >>)).raised,
     reset |-> reset_loop(MonoOver(<< in.L, in.R >>), 1).raised]

ViewControls ==
    /\ probe.kind = "controls" /\ ~probe.done
    /\ probe' = WeightsOfControls(probe, get_left_right_coefficient(probe.volume, probe.balance))
    /\ UNCHANGED << pc, input_channel_layout, input_channel_names, downmix_coefficients,
                    scale_dict, replaced_scales, lock_sides, audio_filter, mpv_af,
                    media, budget, fired, hist, tables >>

ViewWeights ==
    /\ probe.kind = "weights" /\ ~probe.done
    /\ probe' = ControlsOfWeights(probe,
                                  get_channel_volume(PairMatrix(<< probe.L, probe.R >>), role.FC),
                                  get_channel_balance(PairMatrix(<< probe.L, probe.R >>), role.FC))
    /\ UNCHANGED << pc, input_channel_layout, input_channel_names, downmix_coefficients,
                    scale_dict, replaced_scales, lock_sides, audio_filter, mpv_af,
                    media, budget, fired, hist, tables >>

NextViews == ViewControls \/ ViewWeights

SpecViews == InitViews /\ [][NextViews]_vars

(***************************************************************************)
(* Properties of the two parameterizations                                 *)
(***************************************************************************)
\* rounding leaves errors far below this
Tolerance == FDiv(F1, FInt(1000000000))

Close(x, y) == FCmp(FAbs(FSub(x, y)), Tolerance) <= 0

Positive(x) == x.sg > 0

NonNegative(x) == x.sg >= 0

VolumeInRange(v) == FCmp(v, FDec6(1000)) >= 0 /\ FCmp(v, FInt(4)) <= 0

BalanceInRange(b) == FCmp(b, FInt(-1)) >= 0 /\ FCmp(b, F1) <= 0

WeightInRange(w) == NonNegative(w) /\ FCmp(w, FInt(4)) <= 0

C10_BalanceUndefined ==
    (probe.kind = "weights" /\ probe.done /\ FAdd(probe.R, probe.L).sg = 0)
        => /\ probe.balance_view # ZeroDivisionError
           /\ probe.built = NoError
           /\ probe.reset = NoError

(***************************************************************************)
(* Properties of the handlers                                              *)
(***************************************************************************)
Bilateral(key) == key[Len(key)] \in {"L", "R"}

\* the channels of the grid on display
ActiveChannels == SeqToSet(GridChannels(input_channel_names))

\* the keys of the scales of a set of channels
KeysOf(channels) == {KeyOf(frame_id, ch) : frame_id \in {s_volume, s_balance}, ch \in channels}

\* C1: a live change of a scale, the write to its sibling included, hands no
\* filter to the player and calls no after_change; and in every handler the
\* number of af_cmd("set") calls is the number of after_change calls.
C1_NoPushOnLiveChange ==
    /\ hist.op = "LiveChange" => (hist.pushes = 0 /\ hist.commits = << >>)
    /\ hist.pushes = Len(hist.commits)

\* a live change with lock sides on that wrote the sibling, a filter pushed before
C1_Witness ==
    /\ hist.op = "LiveChange" /\ lock_sides /\ Bilateral(hist.key)
    /\ scale_dict[OtherKey(hist.key)].value # scale_dict[OtherKey(hist.key)].last_value
    /\ hist.pushes = 0
    /\ mpv_af # None

\* C2: with lock sides on, a live change that puts a scale of a side at x
\* leaves the sibling of the same view at x for a volume and at -x for a
\* balance.
C2_MirrorValue ==
    (hist.op = "LiveChange" /\ lock_sides /\ Bilateral(hist.key))
        => /\ hist.raised = NoError
           /\ OtherKey(hist.key) \in DOMAIN scale_dict
           /\ get(scale_dict[OtherKey(hist.key)]) =
                  IF StartsWith(hist.key, s_balance)
                  THEN FNeg(get(scale_dict[hist.key]))
                  ELSE get(scale_dict[hist.key])

\* a balance of a back or side channel mirrored, negated
C2_Witness ==
    /\ hist.op = "LiveChange" /\ lock_sides /\ Bilateral(hist.key)
    /\ StartsWith(hist.key, s_balance)
    /\ hist.key[Len(hist.key) - 1] \in {"S", "B"}
    /\ get(scale_dict[hist.key]).sg # 0
    /\ get(scale_dict[OtherKey(hist.key)]) = FNeg(get(scale_dict[hist.key]))

\* the values of the scales other than that of key are what they were
OthersUnchanged(key) ==
    /\ DOMAIN scale_dict' = DOMAIN scale_dict
    /\ \A k \in DOMAIN scale_dict \ {key} : scale_dict'[k].value = scale_dict[k].value

\* C3: a live change or a commit on a scale of FC, LFE or BC, lock sides on
\* or off, and a live change on any scale with lock sides off, leave the
\* value of every other scale as it was.
C3_OthersUnchanged ==
    [][((hist'.op \in {"LiveChange", "ButtonRelease", "TimerExpires"}
            /\ ~Bilateral(hist'.key))
        \/ (hist'.op = "LiveChange" /\ ~lock_sides))
       => OthersUnchanged(hist'.key)]_vars

\* a commit on a scale of FC, LFE or BC with lock sides on, other scales there
C3_Witness ==
    /\ hist.op = "ButtonRelease" /\ ~Bilateral(hist.key) /\ lock_sides
    /\ Len(hist.commits) = 1
    /\ \E k \in DOMAIN scale_dict : Bilateral(k)

\* C4: after a notification of a track whose layout X is in the table, the
\* active layout is X, the matrix is the reference matrix of X, the scales
\* are those of the channels of X, and the notification made one push.
C4_TrackSwitchesLayout ==
    (hist.op = "TrackNotification" /\ hist.arg.present
         /\ hist.arg.demux_channels \in DOMAIN N)
        => /\ input_channel_layout = hist.arg.demux_channels
           /\ downmix_coefficients = Coefficients(hist.arg.demux_channels)
           /\ DOMAIN scale_dict = KeysOf(SeqToSet(GridChannels(N[hist.arg.demux_channels])))
           /\ hist.pushes = 1

\* C5: a notification with no track, or with a layout that starts with
\* "unknown", leaves layout, grid, matrix, scales and filter as they were,
\* pushes nothing, raises nothing and leaves the main loop running.
C5_NotificationIgnored ==
    [][(hist'.op = "TrackNotification"
            /\ (~hist'.arg.present \/ StartsWith(hist'.arg.demux_channels, s_unknown)))
       => /\ UNCHANGED << input_channel_layout, input_channel_names,
                          downmix_coefficients, scale_dict, audio_filter, mpv_af >>
          /\ hist'.pushes = 0
          /\ hist'.raised = NoError
          /\ pc' = "mainloop"]_vars

\* a notification of an unknown layout while scales are on display
C5_Witness ==
    /\ hist.op = "TrackNotification" /\ hist.arg = Track(s_unknown4)
    /\ scale_dict # << >>
    /\ pc = "mainloop"

\* C6: a button release or the expiry of a timer calls after_change at most
\* once, and does so exactly if the value of the scale differs from its
\* _last_value; the call carries the key and the value, which then is the
\* _last_value.  _last_value changes in no other way while the scale is in
\* scale_dict: it is the value of the scale's last commit, or the value the
\* scale was built with.
C6_CommitOnceIfChanged ==
    [][/\ hist'.op \in {"ButtonRelease", "TimerExpires", "ReplacedTimerExpires"}
            => Len(hist'.commits) <= 1
       /\ hist'.op \in {"ButtonRelease", "TimerExpires"}
            => IF get(scale_dict[hist'.key]) = scale_dict[hist'.key].last_value
               THEN /\ hist'.commits = << >>
                    /\ scale_dict'[hist'.key].last_value = scale_dict[hist'.key].last_value
               ELSE /\ hist'.commits = << << hist'.key, get(scale_dict[hist'.key]) >> >>
                    /\ hist'.raised = NoError
                    /\ scale_dict'[hist'.key].last_value = get(scale_dict[hist'.key])
       /\ hist'.op \in {"LiveChange", "KeyRelease", "ToggleLockSides", "ResetButton",
                        "ButtonRelease", "TimerExpires", "ReplacedTimerExpires"}
            => \A k \in DOMAIN scale_dict :
                   (k \in DOMAIN scale_dict'
                        /\ scale_dict'[k].last_value # scale_dict[k].last_value)
                       => (hist'.op \in {"ButtonRelease", "TimerExpires"} /\ hist'.key = k)
      ]_vars

\* the timer of a scale expires on the value a button release has committed
\* since the timer was started: nothing is committed again
C6_Witness ==
    /\ hist.op = "TimerExpires" /\ hist.commits = << >>
    /\ scale_dict[hist.key].value \in UserRaws(hist.key)
    /\ scale_dict[hist.key].last_value = get(scale_dict[hist.key])

\* the scales there are, in scale_dict or replaced
AllScales ==
    {scale_dict[k] : k \in DOMAIN scale_dict}
    \cup {replaced_scales[i].scale : i \in DOMAIN replaced_scales}

\* C7: a scale has at most one timer pending, the one started last; after a
\* key release exactly that one is pending; and the expiry of a timer calls
\* after_change at most once, with the value the scale has at the expiry.
C7_Debounce ==
    /\ \A scale \in AllScales : scale.pending \subseteq {scale.change_key_timer}
    /\ hist.op = "KeyRelease"
           => scale_dict[hist.key].pending = {scale_dict[hist.key].change_key_timer}
    /\ hist.op = "TimerExpires"
           => /\ Len(hist.commits) <= 1
              /\ scale_dict[hist.key].pending = {}
              /\ hist.commits # << >>
                     => hist.commits[1] = << hist.key, get(scale_dict[hist.key]) >>

\* the second timer of a scale expires and commits the value the user put
\* the scale at
C7_Witness ==
    /\ hist.op = "TimerExpires" /\ Len(hist.commits) = 1
    /\ scale_dict[hist.key].change_key_timer >= 2
    /\ scale_dict[hist.key].value \in UserRaws(hist.key)
    /\ hist.commits[1][2] = get(scale_dict[hist.key])

\* C8 as claimed: the reset button, pressed with a known layout, leaves
\* the layout, puts every scale at
\* the volume and the balance of the reference matrix, leaves the matrix
\* equal to the reference matrix of the layout, and makes one push.
C8_ResetExact ==
    (hist.op = "ResetButton" /\ KnownLayout(input_channel_layout))
        => /\ hist.raised = NoError
           /\ hist.pushes = 1
           /\ downmix_coefficients = Coefficients(input_channel_layout)
           /\ \A ch \in ActiveChannels :
                  /\ get(scale_dict[KeyOf(s_volume, ch)])
                         = Volume(Coefficients(input_channel_layout), ch)
                  /\ get(scale_dict[KeyOf(s_balance, ch)])
                         = Balance(Coefficients(input_channel_layout), ch)

\* what the scale of a channel is set to by a reset, and what it then reads
ResetVolume(layout, ch) == GetLin(SetLin(Volume(Coefficients(layout), ch)))

ResetBalance(layout, ch) == GetLin(SetLin(Balance(Coefficients(layout), ch)))

\* C8 amended: the reset button, in a state with a known layout and after
\* any edits, leaves the layout, makes one push, and leaves scales and
\* matrix at values that depend on the layout alone: every scale at the
\* volume or balance of the reference matrix taken to the scale and back,
\* within Tolerance of the reference value, and every pair of weights that
\* get_left_right_coefficient gives for these, within Tolerance of the
\* reference weights.
C8_ResetClose ==
    [][(hist'.op = "ResetButton" /\ KnownLayout(input_channel_layout))
       => /\ hist'.raised = NoError
          /\ hist'.pushes = 1
          /\ input_channel_layout' = input_channel_layout
          /\ DOMAIN scale_dict' = KeysOf(ActiveChannels)
          /\ downmix_coefficients'.keys = Coefficients(input_channel_layout).keys
          /\ \A ch \in ActiveChannels :
                 /\ get(scale_dict'[KeyOf(s_volume, ch)]) = ResetVolume(input_channel_layout, ch)
                 /\ get(scale_dict'[KeyOf(s_balance, ch)]) = ResetBalance(input_channel_layout, ch)
                 /\ Close(ResetVolume(input_channel_layout, ch),
                          Volume(Coefficients(input_channel_layout), ch))
                 /\ Close(ResetBalance(input_channel_layout, ch),
                          Balance(Coefficients(input_channel_layout), ch))
                 /\ WeightPair(downmix_coefficients', ch)
                        = LeftRight(ResetVolume(input_channel_layout, ch),
                                    ResetBalance(input_channel_layout, ch))
                 /\ Close(downmix_coefficients'.FL[ch], Coefficients(input_channel_layout).FL[ch])
                 /\ Close(downmix_coefficients'.FR[ch], Coefficients(input_channel_layout).FR[ch])
      ]_vars

\* a reset after an edit that left a scale off the reference value, with a
\* matrix that is not the reference matrix to the last bit
C8_Witness ==
    /\ hist.op = "ResetButton" /\ hist.pushes = 1
    /\ downmix_coefficients # Coefficients(input_channel_layout)
    /\ \A ch \in ActiveChannels :
           Close(downmix_coefficients.FL[ch], Coefficients(input_channel_layout).FL[ch])

(***************************************************************************)
(* Properties of the layout table and of the state the handlers keep       *)
(***************************************************************************)
\* C11: selecting a layout name the table lacks is survived and changes
\* nothing: after a start on such a name the process runs, and layout,
\* grid, matrix and scales are what they were before (None, empty, None,
\* none).
C11_UnknownLayoutRecoverable ==
    (hist.op = "Start" /\ hist.arg.present
         /\ hist.arg.channels \notin DOMAIN input_channel_names_by_layout)
        => /\ pc # "exited"
           /\ input_channel_layout = None
           /\ input_channel_names = << >>
           /\ downmix_coefficients = NoCoefficients
           /\ scale_dict = << >>

(***************************************************************************)
(* The layout table on its own: a name looked up, and a second name looked *)
(* up beside it                                                            *)
(***************************************************************************)
TableInputs ==
    {[kind |-> "table", name |-> a, other |-> b, done |-> FALSE] :
        a \in DOMAIN N, b \in DOMAIN N}

InitTable ==
    /\ InitProgram
    /\ tables = Tables
    /\ media = SmallMedia
    /\ budget = 0
    /\ probe \in TableInputs

\* N[name] and N[other], and the channels update_scale_dict would visit
ViewTable ==
    /\ probe.kind = "table" /\ ~probe.done
    /\ probe' = [kind |-> "table", name |-> probe.name, other |-> probe.other,
                 done |-> TRUE, grid |-> N[probe.name], other_grid |-> N[probe.other],
                 channels |-> GridChannels(N[probe.name])]
    /\ UNCHANGED << pc, input_channel_layout, input_channel_names, downmix_coefficients,
                    scale_dict, replaced_scales, lock_sides, audio_filter, mpv_af,
                    media, budget, fired, hist, tables >>

SpecTable == InitTable /\ [][ViewTable]_vars

\* the names the table defines in one assignment: N["mono"] = N["1.0"] = ...
Aliases ==
    {<< layout_name.s_mono, layout_name.s_1_0 >>,
     << layout_name.s_stereo, layout_name.s_2_0 >>,
     << layout_name.s_5_0, layout_name.s_5_0_alsa >>,
     << layout_name.s_5_1, layout_name.s_5_1_alsa >>,
     << layout_name.s_7_1, layout_name.s_7_1_alsa >>}

DigitValue(c) == CHOOSE d \in 0..9 : << "0", "1", "2", "3", "4", "5", "6", "7", "8", "9" >>[d + 1] = c

IsDigit(c) == c \in {"0", "1", "2", "3", "4", "5", "6", "7", "8", "9"}

\* the channel count a layout name stands for: X + Y for X.Y, with or
\* without a suffix in brackets; 1, 2, 4, 6 for mono, stereo, quad,
\* hexagonal; 0 for empty
NominalCount(name) ==
    IF Len(name) >= 3 /\ IsDigit(name[1]) /\ name[2] = "." /\ IsDigit(name[3])
    THEN DigitValue(name[1]) + DigitValue(name[3])
    ELSE IF StartsWith(name, layout_name.s_mono) THEN 1
    ELSE IF StartsWith(name, layout_name.s_stereo) THEN 2
    ELSE IF StartsWith(name, layout_name.s_quad) THEN 4
    ELSE IF StartsWith(name, layout_name.s_hexagonal) THEN 6
    ELSE 0

\* C12 as claimed: the grid of every name in the table has at least one
\* role, as many roles as the name's channel count, and two names defined
\* as aliases have the same grid.
C12_GridMatchesName ==
    (probe.kind = "table" /\ probe.done)
        => /\ SeqToSet(probe.channels) # {}
           /\ Cardinality(SeqToSet(probe.channels)) = NominalCount(probe.name)
           /\ << probe.name, probe.other >> \in Aliases => probe.grid = probe.other_grid

\* C12 amended: the grid of every name in the table has as many roles as
\* the name's channel count, no role twice, and at least one role unless
\* the name is "empty", whose grid has none; two names defined as aliases
\* have the same grid.
C12_GridMatchesNameButEmpty ==
    (probe.kind = "table" /\ probe.done)
        => /\ probe.name # layout_name.s_empty => SeqToSet(probe.channels) # {}
           /\ probe.name = layout_name.s_empty => probe.channels = << >>
           /\ Cardinality(SeqToSet(probe.channels)) = NominalCount(probe.name)
           /\ Len(probe.channels) = NominalCount(probe.name)
           /\ << probe.name, probe.other >> \in Aliases => probe.grid = probe.other_grid

\* the grid of "5.1(alsa)" looked up beside that of its alias "5.1": six roles
C12_Witness ==
    /\ probe.kind = "table" /\ probe.done
    /\ << probe.other, probe.name >> \in Aliases
    /\ probe.name = layout_name.s_5_1_alsa
    /\ Len(probe.channels) = 6
    /\ probe.grid = probe.other_grid

s_pan == << "p", "a", "n", "=" >>

\* C13: no assertion of after_change fails; every filter rendered begins
\* with "pan=stereo|FL="; and what the player was handed last is the filter
\* rendered last with the part after "pan=" between double quotes.
C13_FilterPrefixAndQuotes ==
    /\ hist.raised # "AssertionError"
    /\ audio_filter # << >> => StartsWith(audio_filter, s_pan_stereo_FL)
    /\ mpv_af # None
           => /\ Len(mpv_af) >= 6
              /\ mpv_af = s_pan \o << "\"" >> \o SubSeq(mpv_af, 6, Len(mpv_af) - 1) \o << "\"" >>
              /\ audio_filter = s_pan \o SubSeq(mpv_af, 6, Len(mpv_af) - 1)

\* a button release has committed an edit: a filter rendered and pushed
C13_Witness ==
    /\ hist.op = "ButtonRelease" /\ hist.pushes = 1
    /\ mpv_af # None
    /\ StartsWith(audio_filter, s_pan_stereo_FL)

\* the weights the claims give for a volume and a balance
LeftOf(volume, balance) == FDiv(FMul(FSub(F1, balance), volume), F2)

RightOf(volume, balance) == FDiv(FMul(FAdd(F1, balance), volume), F2)

\* the volume and the balance the scales of a channel show
ShownVolume(ch) == get(scale_dict[KeyOf(s_volume, ch)])

ShownBalance(ch) == get(scale_dict[KeyOf(s_balance, ch)])

\* C14: right after a handler that called after_change, the matrix holds
\* for every channel of the layout the weights (1 - balance) * volume / 2
\* and (1 + balance) * volume / 2 of the values its two scales show, for
\* these channels and no others, and the filter rendered and pushed is the
\* rendering of that matrix.
C14_MatrixFromControls ==
    hist.commits # << >>
        => /\ hist.raised = NoError
           /\ DOMAIN downmix_coefficients.FL = ActiveChannels
           /\ DOMAIN downmix_coefficients.FR = ActiveChannels
           /\ \A ch \in ActiveChannels :
                  /\ downmix_coefficients.FL[ch] = LeftOf(ShownVolume(ch), ShownBalance(ch))
                  /\ downmix_coefficients.FR[ch] = RightOf(ShownVolume(ch), ShownBalance(ch))
           /\ audio_filter = get_ffmpeg_audio_filter(downmix_coefficients)
           /\ mpv_af = s_pan \o << "\"" >> \o SubSeq(audio_filter, 5, Len(audio_filter))
                           \o << "\"" >>

\* a commit with a channel at volume 0.5 and balance -0.2: weights 0.3, 0.2
C14_Witness ==
    /\ hist.op = "ButtonRelease" /\ Len(hist.commits) = 1
    /\ \E ch \in ActiveChannels :
           /\ ShownVolume(ch) = FDiv(FInt(5), F10)
           /\ ShownBalance(ch) = FDiv(FInt(-2), F10)
           /\ downmix_coefficients.FL[ch] = FDiv(FInt(3), F10)
           /\ downmix_coefficients.FR[ch] = FDiv(FInt(2), F10)

\* the channel a key is for: "volume.FL" and "balance.FL" are for "FL"
RoleOf(key) ==
    IF StartsWith(key, s_volume) THEN SubSeq(key, Len(s_volume) + 2, Len(key))
    ELSE SubSeq(key, Len(s_balance) + 2, Len(key))

\* the channel on the other side, for a channel of a side
OtherRole(ch) == SubSeq(ch, 1, Len(ch) - 1) \o << IF ch[Len(ch)] = "R" THEN "L" ELSE "R" >>

\* C15: a button release or a timer expiry that commits the scale of a key
\* changes the pair of weights of the channel of the key only, and that of
\* the channel on the other side when lock sides is on: the weights of
\* every other channel are what they were, also where the scale of another
\* channel has been moved and not committed.
C15_CommitChangesOneRole ==
    [][(hist'.op \in {"ButtonRelease", "TimerExpires"} /\ Len(hist'.commits) = 1)
       => \A ch \in ActiveChannels :
              (ch # RoleOf(hist'.key)
                   /\ ~(lock_sides /\ Bilateral(hist'.key) /\ ch = OtherRole(RoleOf(hist'.key))))
                  => WeightPair(downmix_coefficients', ch) = WeightPair(downmix_coefficients, ch)
      ]_vars

\* C16: a live change of a scale writes at most one scale, the sibling of
\* the scale changed, and nothing else happens: no after_change, no push,
\* the scale changed keeps the value the user gave it, the sibling changes
\* in its value alone (no _last_value set, no timer started), and every
\* other scale, the matrix and the filter are left as they were.
C16_OneMirrorWrite ==
    [][hist'.op = "LiveChange"
       => /\ hist'.writes \in {<< >>, << OtherKey(hist'.key) >>}
          /\ hist'.commits = << >> /\ hist'.pushes = 0
          /\ DOMAIN scale_dict' = DOMAIN scale_dict
          /\ scale_dict'[hist'.key] = [scale_dict[hist'.key] EXCEPT !.value = hist'.arg]
          /\ \A k \in DOMAIN scale_dict \ {hist'.key} :
                 IF hist'.writes = << k >>
                 THEN scale_dict'[k] = [scale_dict[k] EXCEPT !.value = scale_dict'[k].value]
                 ELSE scale_dict'[k] = scale_dict[k]
          /\ UNCHANGED << downmix_coefficients, audio_filter, mpv_af, replaced_scales >>
      ]_vars

\* a live change that wrote the sibling, whose timer is pending and stays so
C16_Witness ==
    /\ hist.op = "LiveChange" /\ hist.writes = << OtherKey(hist.key) >>
    /\ scale_dict[OtherKey(hist.key)].pending # {}
    /\ scale_dict[OtherKey(hist.key)].value # SetLin(scale_dict[OtherKey(hist.key)].last_value)

\* C17: in every state with a layout of the table, the keys of scale_dict
\* are the volume key and the balance key of each channel of the grid of
\* that layout, no key missing and none of another channel left.
C17_BindingsOfLayout ==
    KnownLayout(input_channel_layout)
        => DOMAIN scale_dict
               = KeysOf(SeqToSet(GridChannels(
                            input_channel_names_by_layout[input_channel_layout])))

\* the scales of 6.1 built a second time by a track notification
C17_Witness ==
    /\ hist.op = "TrackNotification" /\ hist.arg.present
    /\ ~StartsWith(hist.arg.demux_channels, s_unknown)
    /\ input_channel_layout = layout_name.s_6_1
    /\ Cardinality(DOMAIN scale_dict) = 14

\* no scale is being moved and no timer of a scale is pending
Quiescent ==
    /\ hist.editing = {}
    /\ replaced_scales = << >>
    /\ \A key \in DOMAIN scale_dict : scale_dict[key].pending = {}

\* C18: in the main loop, once a filter has been pushed, with no scale being
\* moved and no timer pending, the matrix last pushed holds for every
\* channel the weights of the values its two scales show.
C18_QuiescentConsistency ==
    (pc = "mainloop" /\ mpv_af # None /\ Quiescent)
        => \A ch \in ActiveChannels :
               /\ downmix_coefficients.FL[ch] = LeftOf(ShownVolume(ch), ShownBalance(ch))
               /\ downmix_coefficients.FR[ch] = RightOf(ShownVolume(ch), ShownBalance(ch))

\* the left roles with their right counterparts
SidePairs == {<< role.FL, role.FR >>, << role.SL, role.SR >>, << role.BL, role.BR >>}

\* C19: every grid of the table holds a left role exactly if it holds the
\* right counterpart; so the sibling of every scale of a left or right
\* channel is in scale_dict, and no live change raises a KeyError.
C19_SiblingExists ==
    /\ \A layout \in DOMAIN N : \A p \in SidePairs :
           p[1] \in SeqToSet(GridChannels(N[layout]))
               <=> p[2] \in SeqToSet(GridChannels(N[layout]))
    /\ \A key \in DOMAIN scale_dict :
           Bilateral(key) => OtherKey(key) \in DOMAIN scale_dict
    /\ hist.op = "LiveChange" => hist.raised = NoError

\* a live change of a scale of SL or SR in 6.1, mirrored to the sibling
C19_Witness ==
    /\ hist.op = "LiveChange" /\ lock_sides
    /\ input_channel_layout = layout_name.s_6_1
    /\ RoleOf(hist.key) \in {role.SL, role.SR}
    /\ hist.writes = << OtherKey(hist.key) >>

\* the pairs of SidePairs among the channels on display
ActivePairs == {p \in SidePairs : p[1] \in ActiveChannels /\ p[2] \in ActiveChannels}

\* the scales of the two sides show the same volume and opposite balances
SidesSymmetric ==
    \A p \in ActivePairs :
        /\ KeysOf({p[1], p[2]}) \subseteq DOMAIN scale_dict
        /\ ShownVolume(p[1]) = ShownVolume(p[2])
        /\ ShownBalance(p[1]) = FNeg(ShownBalance(p[2]))

\* the weights of the two sides are each other's mirror image
MatrixSymmetric ==
    \A p \in ActivePairs :
        /\ downmix_coefficients.FL[p[1]] = downmix_coefficients.FR[p[2]]
        /\ downmix_coefficients.FR[p[1]] = downmix_coefficients.FL[p[2]]

\* C20: with lock sides on before and after, a step from scales that are
\* symmetric (as they are before any are built) leaves them symmetric: the
\* scales seeded at startup or by a reset are, and stay so under every
\* event; and a step that calls after_change leaves the matrix symmetric.
C20_LockedSidesSymmetric ==
    [][(lock_sides /\ lock_sides' /\ SidesSymmetric)
       => /\ SidesSymmetric'
          /\ hist'.commits # << >> => MatrixSymmetric'
      ]_vars

\* a commit of a balance moved on one side of stereo, the lock on
C20_Witness ==
    /\ hist.op = "ButtonRelease" /\ Len(hist.commits) = 1 /\ lock_sides
    /\ StartsWith(hist.key, s_balance) /\ Bilateral(hist.key)
    /\ ActivePairs # {}
    /\ SidesSymmetric /\ MatrixSymmetric
    /\ downmix_coefficients.FL[role.FR] # FZero

\* the matrix holds for a channel the weights of the values its scales show
Agrees(ch) ==
    /\ downmix_coefficients.FL[ch] = LeftOf(ShownVolume(ch), ShownBalance(ch))
    /\ downmix_coefficients.FR[ch] = RightOf(ShownVolume(ch), ShownBalance(ch))

\* the key of a scale was released last, no scale is being moved, and the
\* matrix pushed last differs from what the scales of the channel show
KeyEditOpen(key) ==
    /\ hist.op = "KeyRelease" /\ hist.key = key
    /\ hist.editing = {}
    /\ mpv_af # None
    /\ ~Agrees(RoleOf(key))

\* a handler has called after_change and the matrix pushed holds what the
\* scales of the channel of key show
KeyEditPushed(key) ==
    /\ hist.commits # << >>
    /\ key \in DOMAIN scale_dict
    /\ Agrees(RoleOf(key))

====
